---- MODULE Spec2Model ----
(***************************************************************************)
(* ImageToggleGallery (LeetCodeTraining/image_toggle_gallery.py): a        *)
(* mutually-exclusive toggle gallery.  The PageSet is the ordered dict     *)
(* image_sets; the UI state is the two dicts _buttons and _outputs plus    *)
(* the children of the root container.  Every public method and every      *)
(* widget event (a click on a toggle, a click on "Close all pages") is one *)
(* action; a handler runs to completion, nested change callbacks included. *)
(***************************************************************************)
EXTENDS Integers, Sequences, FiniteSets, TLC

\* ---------------------------------------------------------------- bounds
NumNames == 3      \* page names are 1..NumNames
NumHtml == 2       \* HTML payloads are 1..NumHtml
MaxPages == 3      \* largest PageSet handed to the constructor
MaxOps == 3        \* operations and events after construction

Names == 1..NumNames
Htmls == 1..NumHtml

VARIABLES
    image_sets,         \* self.image_sets: sequence of [name, html], dict order
    buttons,            \* self._buttons: sequence of [name, value, description]
    outputs,            \* self._outputs: sequence of [name, content]
    container,          \* self.container.children
    include_close_all,  \* self.include_close_all
    err,                \* what the last operation or event raised
    fresh,              \* no PageSet change since the UI was last built
    last,               \* the last operation or event and what it was applied to
    trace,              \* what the last event did, in order: <<kind, name, depth, v>>
    ops                 \* operations and events so far

vars == <<image_sets, buttons, outputs, container, include_close_all,
          err, fresh, last, trace, ops>>

\* ------------------------------------------------- Python dict semantics
\* A dict is a sequence of records with a unique "name" field, in insertion
\* order.
Keys(d) == [i \in 1..Len(d) |-> d[i].name]

Has(d, k) == \E i \in 1..Len(d) : d[i].name = k

Idx(d, k) == CHOOSE i \in 1..Len(d) : d[i].name = k

Get(d, k) == d[Idx(d, k)]

\* d[k] = e : an existing key keeps its position, a new key goes last.
DictSet(d, k, e) == IF Has(d, k) THEN [d EXCEPT ![Idx(d, k)] = e] ELSE Append(d, e)

\* d.pop(k, None)
DictPop(d, k) == SelectSeq(d, LAMBDA e : e.name # k)

\* f"Show {name}" and f"Hide {name}"
ShowLabel(name) == <<"Show", name>>

HideLabel(name) == <<"Hide", name>>

\* HTML(html) as displayed in an Output, and the traceback an Output shows
\* for an exception raised inside its context.
Rendered(html) == <<"html", html>>

Traceback(name) == <<"KeyError", name>>

\* --------------------------------------------------------- widget events
\* A handler works on s = [buttons, outputs, err, exc, depth, trace]: the two
\* UI dicts, the error reached so far, whether an exception is propagating,
\* the number of handlers on the call stack and the log of what was done:
\* <<"call", name, depth, new>> a handler was entered, <<"set", name, depth, v>>
\* a toggle's value was changed, <<"clear", name, depth, 0>> a region was
\* cleared.
Bit(b) == IF b THEN 1 ELSE 0

Log(s, kind, name, v) == [s EXCEPT !.trace = Append(@, <<kind, name, s.depth, v>>)]

Enter(s, name, v) == Log([s EXCEPT !.depth = @ + 1], "call", name, v)

Leave(s) == [s EXCEPT !.depth = @ - 1]

Raise(s) == [s EXCEPT !.err = "KeyError", !.exc = TRUE]

\* clear_output() inside "with self._outputs[name]"
clear_output(s, name) ==
    Log([s EXCEPT !.outputs = DictSet(s.outputs, name, [name |-> name, content |-> <<>>])],
        "clear", name, 0)

\* display(item) inside "with self._outputs[name]"
display(s, name, item) ==
    [s EXCEPT !.outputs = DictSet(s.outputs, name,
        [name |-> name, content |-> Append(Get(s.outputs, name).content, item)])]

\* Mutant: the label assignment is dropped.
set_description_dropped(s, name, label) == s

\* self._buttons[name].description = label
set_description(s, name, label) ==
    IF ~Has(s.buttons, name) THEN Raise(s)
    ELSE [s EXCEPT !.buttons = DictSet(s.buttons, name,
            [Get(s.buttons, name) EXCEPT !.description = label])]

\* Mutant: _hide_html that leaves the region as it is.
_hide_html_kept(s, name) == s

_hide_html(s, name) ==
    IF ~Has(s.outputs, name) THEN Raise(s) ELSE clear_output(s, name)

RECURSIVE _on_toggle(_, _, _, _, _)

\* Mutant: the observer is wired twice, so every change runs it twice.
set_value_twice(s, sets, name, v, suppress) ==
    IF Get(s.buttons, name).value = v THEN s
    ELSE _on_toggle(
            _on_toggle(Log([s EXCEPT !.buttons = DictSet(s.buttons, name,
                                [Get(s.buttons, name) EXCEPT !.value = v])],
                           "set", name, Bit(v)),
                       sets, [name |-> "value", new |-> v], name, suppress),
            sets, [name |-> "value", new |-> v], name, suppress)

\* btn.value = v on a toggle wired by btn.observe(..., names="value"): the
\* observer runs, synchronously, only when the value changes.
set_value(s, sets, name, v, suppress) ==
    IF Get(s.buttons, name).value = v THEN s
    ELSE _on_toggle(Log([s EXCEPT !.buttons = DictSet(s.buttons, name,
                            [Get(s.buttons, name) EXCEPT !.value = v])],
                        "set", name, Bit(v)),
                    sets, [name |-> "value", new |-> v], name, suppress)

\* Mutant: _show_html without its "close everyone else" loop.
close_others_skipped(s, sets, i, name, suppress) == s

\* Mutant: the loop clears and closes only the pages that are open.
RECURSIVE close_others_open_only(_, _, _, _, _)
close_others_open_only(s, sets, i, name, suppress) ==
    IF i > Len(sets) \/ s.exc THEN s
    ELSE LET other == sets[i].name IN
         IF other = name THEN close_others_open_only(s, sets, i + 1, name, suppress)
         ELSE IF ~Has(s.buttons, other) THEN Raise(s)
         ELSE close_others_open_only(
                IF Get(s.buttons, other).value
                THEN set_value(s, sets, other, FALSE, suppress) ELSE s,
                sets, i + 1, name, suppress)

\* The loop "for other in self.image_sets" of _show_html, from position i on.
RECURSIVE close_others(_, _, _, _, _)
close_others(s, sets, i, name, suppress) ==
    IF i > Len(sets) \/ s.exc THEN s
    ELSE LET other == sets[i].name IN
         IF other = name THEN close_others(s, sets, i + 1, name, suppress)
         ELSE IF ~Has(s.outputs, other) THEN Raise(s)
         ELSE LET c == clear_output(s, other)
                  t == IF ~Has(c.buttons, other) THEN Raise(c)
                       ELSE IF Get(c.buttons, other).value
                            THEN set_value(c, sets, other, FALSE, suppress)
                            ELSE c
              IN close_others(t, sets, i + 1, name, suppress)

\* suppress: the Output context manager swallows an exception raised inside
\* it and shows the traceback in the region (under IPython), or lets it
\* propagate (otherwise).
_show_html(s, sets, name, suppress) ==
    IF ~Has(s.outputs, name) THEN Raise(s)
    ELSE LET c == clear_output(s, name)
             r == IF Has(sets, name)
                  THEN display(c, name, Rendered(Get(sets, name).html))
                  ELSE IF suppress
                       THEN [display(c, name, Traceback(name)) EXCEPT !.err = "KeyError"]
                       ELSE Raise(c)
         IN IF r.exc THEN r ELSE close_others(r, sets, 1, name, suppress)

\* Mutant: _on_toggle that relabels only the page being opened.
_on_toggle_stale_label(s, sets, change, name, suppress) ==
    LET e == Enter(s, name, Bit(change.new)) IN
    Leave(IF change.name # "value" THEN e
          ELSE IF change.new = TRUE
               THEN LET t == _show_html(e, sets, name, suppress)
                    IN IF t.exc THEN t ELSE set_description(t, name, HideLabel(name))
               ELSE _hide_html(e, name))

_on_toggle(s, sets, change, name, suppress) ==
    LET e == Enter(s, name, Bit(change.new)) IN
    Leave(IF change.name # "value" THEN e
          ELSE IF change.new = TRUE
               THEN LET t == _show_html(e, sets, name, suppress)
                    IN IF t.exc THEN t ELSE set_description(t, name, HideLabel(name))
               ELSE LET t == _hide_html(e, name)
                    IN IF t.exc THEN t ELSE set_description(t, name, ShowLabel(name)))

\* The loop "for name in self.image_sets" of _close_all, from position i on.
RECURSIVE _close_all(_, _, _)
_close_all(s, sets, i) ==
    IF i > Len(sets) \/ s.exc THEN s
    ELSE LET name == sets[i].name IN
         IF ~Has(s.buttons, name) THEN Raise(s)
         ELSE LET t == IF Get(s.buttons, name).value
                       THEN set_value(s, sets, name, FALSE, FALSE)
                       ELSE _hide_html(s, name)
                  u == IF t.exc THEN t ELSE set_description(t, name, ShowLabel(name))
              IN _close_all(u, sets, i + 1)

\* ------------------------------------------------------------ the UI tree
\* Mutant: a rebuilt toggle that starts with the "Hide" label.
NewButtonHide(name) == [name |-> name, value |-> FALSE, description |-> HideLabel(name)]

NewButton(name) == [name |-> name, value |-> FALSE, description |-> ShowLabel(name)]

NewOutput(name) == [name |-> name, content |-> <<>>]

BuildButtons(sets) == [i \in 1..Len(sets) |-> NewButton(sets[i].name)]

\* Mutant: refresh that registers no region for the last page.
BuildOutputsShort(sets) == [i \in 1..(Len(sets) - 1) |-> NewOutput(sets[i].name)]

BuildOutputs(sets) == [i \in 1..Len(sets) |-> NewOutput(sets[i].name)]

BuildContainer(sets, withCloseAll) == [close_all |-> withCloseAll, rows |-> Keys(sets)]

\* ------------------------------------------------------------- PageSet ops
add_set_dict(sets, name, html) == DictSet(sets, name, [name |-> name, html |-> html])

remove_set_dict(sets, name) == DictPop(sets, name)

\* Mutant: replace_set on a list of pairs, appending instead of overwriting.
replace_set_appended(sets, name, html) == Append(sets, [name |-> name, html |-> html])

replace_set_dict(sets, name, html) == DictSet(sets, name, [name |-> name, html |-> html])

\* Mutant: rename_set without the "if old in self.image_sets" guard,
\* popping with a default.
rename_set_unguarded(sets, old, new) ==
    DictSet(DictPop(sets, old), new,
            [name |-> new, html |-> IF Has(sets, old) THEN Get(sets, old).html ELSE 0])

\* Mutant: rename_set that keeps the content of an existing destination.
rename_set_keep_new(sets, old, new) ==
    IF Has(sets, old)
    THEN IF Has(DictPop(sets, old), new) THEN DictPop(sets, old)
         ELSE DictSet(DictPop(sets, old), new, [name |-> new, html |-> Get(sets, old).html])
    ELSE sets

\* Mutant: rename_set that renames the key where it stands.
rename_set_in_place(sets, old, new) ==
    IF Has(sets, old)
    THEN [i \in 1..Len(DictPop(sets, new)) |->
            IF DictPop(sets, new)[i].name = old
            THEN [name |-> new, html |-> Get(sets, old).html]
            ELSE DictPop(sets, new)[i]]
    ELSE sets

rename_set_dict(sets, old, new) ==
    IF Has(sets, old)
    THEN DictSet(DictPop(sets, old), new, [name |-> new, html |-> Get(sets, old).html])
    ELSE sets

\* ---------------------------------------------------------------- history
OpenNames(b) == {b[i].name : i \in {j \in 1..Len(b) : b[j].value}}

NameSet(d) == {d[i].name : i \in 1..Len(d)}

Event(op, name, arg) ==
    [op |-> op, name |-> name, arg |-> arg,
     open |-> OpenNames(buttons), had |-> NameSet(image_sets)]

\* ------------------------------------------------------------------- Init
\* The mappings handed to the constructor: pages 1..n in that order, with
\* HTML payloads that differ between neighbours.
InitialPageSets ==
    {[i \in 1..n |-> [name |-> i, html |-> ((i - 1) % NumHtml) + 1]] :
        n \in 0..(IF MaxPages < NumNames THEN MaxPages ELSE NumNames)}

\* __init__: copy the mapping, empty dicts, then refresh().
Init ==
    /\ image_sets \in InitialPageSets
    /\ include_close_all \in BOOLEAN
    /\ buttons = BuildButtons(image_sets)
    /\ outputs = BuildOutputs(image_sets)
    /\ container = BuildContainer(image_sets, include_close_all)
    /\ err = "none"
    /\ fresh = TRUE
    /\ last = [op |-> "init", name |-> 0, arg |-> 0, open |-> {}, had |-> NameSet(image_sets)]
    /\ trace = <<>>
    /\ ops = 0

\* ---------------------------------------------------------------- actions
\* Mutant: a PageSet mutation that also rebuilds the UI.
MutateAndRebuild(sets, ev) ==
    /\ ops < MaxOps
    /\ image_sets' = sets
    /\ buttons' = BuildButtons(sets)
    /\ outputs' = BuildOutputs(sets)
    /\ container' = BuildContainer(sets, include_close_all)
    /\ fresh' = TRUE
    /\ err' = "none"
    /\ last' = ev
    /\ trace' = <<>>
    /\ ops' = ops + 1
    /\ UNCHANGED include_close_all

Mutate(sets, ev) ==
    /\ ops < MaxOps
    /\ image_sets' = sets
    /\ fresh' = (fresh /\ sets = image_sets)
    /\ err' = "none"
    /\ last' = ev
    /\ trace' = <<>>
    /\ ops' = ops + 1
    /\ UNCHANGED <<buttons, outputs, container, include_close_all>>

add_set(name, html) == Mutate(add_set_dict(image_sets, name, html), Event("add_set", name, html))

remove_set(name) == Mutate(remove_set_dict(image_sets, name), Event("remove_set", name, 0))

replace_set(name, html) ==
    Mutate(replace_set_dict(image_sets, name, html), Event("replace_set", name, html))

rename_set(old, new) == Mutate(rename_set_dict(image_sets, old, new), Event("rename_set", old, new))

refresh ==
    /\ ops < MaxOps
    /\ buttons' = BuildButtons(image_sets)
    /\ outputs' = BuildOutputs(image_sets)
    /\ container' = BuildContainer(image_sets, include_close_all)
    /\ err' = "none"
    /\ fresh' = TRUE
    /\ last' = Event("refresh", 0, 0)
    /\ trace' = <<>>
    /\ ops' = ops + 1
    /\ UNCHANGED <<image_sets, include_close_all>>

Handled(s, ev) ==
    /\ ops < MaxOps
    /\ buttons' = s.buttons
    /\ outputs' = s.outputs
    /\ err' = s.err
    /\ last' = ev
    /\ trace' = s.trace
    /\ ops' = ops + 1
    /\ UNCHANGED <<image_sets, container, include_close_all, fresh>>

Start ==
    [buttons |-> buttons, outputs |-> outputs, err |-> "none", exc |-> FALSE,
     depth |-> 0, trace |-> <<>>]

\* The user clicks the toggle of page name: its value flips and the observer
\* wired in refresh runs.
Toggle(name, suppress) ==
    /\ name \in {container.rows[i] : i \in 1..Len(container.rows)}
    /\ Has(buttons, name)
    /\ suppress => ~Has(image_sets, name)   \* the host only decides when HTML(...) raises
    /\ LET v == ~Get(buttons, name).value
       IN Handled(set_value(Start, image_sets, name, v, suppress),
                  Event("toggle", name, IF v THEN 1 ELSE 0))

\* The user clicks "Close all pages".
CloseAll ==
    /\ container.close_all
    /\ Handled(_close_all(Enter(Start, 0, 0), image_sets, 1), Event("close_all", 0, 0))

Next ==
    \/ \E name \in Names, html \in Htmls : add_set(name, html)
    \/ \E name \in Names : remove_set(name)
    \/ \E name \in Names, html \in Htmls : replace_set(name, html)
    \/ \E old \in Names, new \in Names : rename_set(old, new)
    \/ refresh
    \/ \E name \in Names, suppress \in BOOLEAN : Toggle(name, suppress)
    \/ CloseAll

Spec == Init /\ [][Next]_vars

\* ================================================================ claims
Closed(b) == ~b.value

IsEvent == last.op \in {"toggle", "close_all"}

\* C1: in a gallery built by the constructor or refresh() whose PageSet has
\* not changed since, after every toggle event and every close-all event has
\* been handled, nested callbacks included, at most one toggle is open.
C1_ExclusiveWhenFresh ==
    (fresh /\ IsEvent) => Cardinality(OpenNames(buttons)) <= 1

\* C1 witness: a page was opened while another page was open, and only the
\* newly opened page is open afterwards.
C1_Witness ==
    /\ fresh
    /\ last.op = "toggle" /\ last.arg = 1
    /\ last.open # {} /\ last.name \notin last.open
    /\ OpenNames(buttons) = {last.name}

\* C2: after any interleaving of add_set, remove_set, replace_set,
\* rename_set, refresh, toggle events and close-all events, at most one of
\* the toggles held in _buttons is open.
C2_ExclusiveAlways == Cardinality(OpenNames(buttons)) <= 1

\* C3: no public operation and no event handler ever reaches an error.
C3_NothingFails == err = "none"

\* C4: after remove_set(name) of a present page, and after
\* rename_set(old, new) of a present old page (new # old), the gallery holds
\* no toggle and no display region for the removed or old name.
C4_RemovalRetiresUI ==
    ((\/ last.op = "remove_set"
      \/ last.op = "rename_set" /\ last.arg # last.name)
     /\ last.name \in last.had)
        => ~Has(buttons, last.name) /\ ~Has(outputs, last.name)

IsShut(b, o, name) ==
    /\ Closed(Get(b, name))
    /\ Get(o, name).content = <<>>
    /\ Get(b, name).description = ShowLabel(name)

\* C5: in a freshly built gallery where page Q is open and page P # Q is
\* closed, a toggle event opening P ends with P open, P's region holding
\* exactly P's HTML from the PageSet and P labelled "Hide P"; Q and every
\* other page closed, with an empty region and a "Show <name>" label.
C5_OpenThenSwitch ==
    (/\ fresh
     /\ last.op = "toggle" /\ last.arg = 1
     /\ last.open # {} /\ last.name \notin last.open)
        => /\ err = "none"
           /\ Get(buttons, last.name).value
           /\ Get(outputs, last.name).content
                  = <<Rendered(Get(image_sets, last.name).html)>>
           /\ Get(buttons, last.name).description = HideLabel(last.name)
           /\ \A n \in NameSet(buttons) \ {last.name} : IsShut(buttons, outputs, n)

\* C5 witness: P was opened while Q was open, in a fresh gallery of at least
\* three pages.
C5_Witness ==
    /\ fresh
    /\ last.op = "toggle" /\ last.arg = 1
    /\ last.open # {} /\ last.name \notin last.open
    /\ Len(buttons) >= 3
    /\ Get(buttons, last.name).value

\* C6: after a close-all event, from any reachable state, every toggle the
\* gallery holds is closed, every display region is empty and every label is
\* "Show <name>".
C6_CloseAllPost ==
    last.op = "close_all"
        => \A n \in NameSet(buttons) : IsShut(buttons, outputs, n)

\* C7: when the user toggles an open page P to closed, P's region becomes
\* empty and P's label becomes "Show P"; the open flag, region and label of
\* every other page, and the PageSet, are unchanged.
C7_CloseTouchesOnlyP ==
    [][(last'.op = "toggle" /\ last'.arg = 0)
        => /\ err' = "none"
           /\ IsShut(buttons', outputs', last'.name)
           /\ Keys(buttons') = Keys(buttons) /\ Keys(outputs') = Keys(outputs)
           /\ \A n \in NameSet(buttons) \ {last'.name} :
                 /\ Get(buttons', n) = Get(buttons, n)
                 /\ Get(outputs', n) = Get(outputs, n)
           /\ image_sets' = image_sets /\ container' = container]_vars

\* C7 witness: an open page was toggled closed while the gallery held other
\* pages.
C7_Witness ==
    /\ last.op = "toggle" /\ last.arg = 0 /\ last.name \in last.open
    /\ Len(buttons) >= 2
    /\ IsShut(buttons, outputs, last.name)

AllShutInOrder(sets, b, o, c) ==
    /\ Keys(b) = Keys(sets) /\ Keys(o) = Keys(sets) /\ c.rows = Keys(sets)
    /\ \A i \in 1..Len(sets) :
          /\ ~b[i].value
          /\ b[i].description = ShowLabel(sets[i].name)
          /\ o[i].content = <<>>

\* C8: refresh() (and the constructor) from any reachable state yields one
\* toggle and one region per PageSet entry, in PageSet order, every toggle
\* closed, every region empty, every label "Show <name>"; a second refresh()
\* with no PageSet mutation in between leaves the UI state as it is.
C8_RefreshResets ==
    /\ [](last.op \in {"init", "refresh"}
            => AllShutInOrder(image_sets, buttons, outputs, container))
    /\ [][(last.op = "refresh" /\ last'.op = "refresh")
            => buttons' = buttons /\ outputs' = outputs /\ container' = container]_vars

\* C8 witness: refresh() was called with a page open whose entry had been
\* removed from the PageSet since the UI was built.
C8_Witness ==
    /\ last.op = "refresh"
    /\ last.open # {} /\ ~(last.open \subseteq last.had)
    /\ Len(image_sets) >= 1

UI == <<buttons, outputs, container>>

\* C9: remove_set(name) and rename_set(name, new) for a name that is not in
\* the PageSet leave the PageSet (contents and order) and all UI state
\* unchanged and raise no error.
C9_AbsentIsNoOp ==
    [][(last'.op \in {"remove_set", "rename_set"}
            /\ last'.name \notin NameSet(image_sets))
        => image_sets' = image_sets /\ UI' = UI /\ err' = "none"]_vars

\* C9 witness: rename_set of an absent name onto a present one, with a page
\* open.
C9_Witness ==
    /\ last.op = "rename_set"
    /\ last.name \notin last.had /\ last.arg \in last.had
    /\ last.open # {}

\* C10: rename_set(old, new) with both names present and old # new yields a
\* PageSet without old, in which new maps to the HTML old held, new's former
\* HTML is gone and every other entry is unchanged.
C10_RenameCollision ==
    [][(/\ last'.op = "rename_set" /\ last'.name # last'.arg
        /\ last'.name \in NameSet(image_sets)
        /\ last'.arg \in NameSet(image_sets))
        => /\ NameSet(image_sets') = NameSet(image_sets) \ {last'.name}
           /\ Len(image_sets') = Len(image_sets) - 1
           /\ Get(image_sets', last'.arg).html = Get(image_sets, last'.name).html
           /\ \A n \in NameSet(image_sets) \ {last'.name, last'.arg} :
                 Get(image_sets', n) = Get(image_sets, n)]_vars

\* C10 witness: a rename onto an existing name in a PageSet that held a
\* third entry.
C10_Witness ==
    /\ last.op = "rename_set" /\ last.name # last.arg
    /\ {last.name, last.arg} \subseteq last.had
    /\ Cardinality(last.had) >= 3
    /\ Len(image_sets) = Cardinality(last.had) - 1

IsMutation(ev) == ev.op \in {"add_set", "remove_set", "replace_set", "rename_set"}

\* C11: add_set, replace_set, remove_set and rename_set change only the
\* PageSet: toggles, open flags, regions, labels and the root container's
\* children are the same before and after the call, and the toggles, regions
\* and children the gallery holds are replaced by nothing but refresh().
C11_MutationsLeaveUI ==
    [][/\ IsMutation(last') => UI' = UI /\ include_close_all' = include_close_all
       /\ last'.op # "refresh"
            => /\ Keys(buttons') = Keys(buttons)
               /\ Keys(outputs') = Keys(outputs)
               /\ container' = container]_vars

\* C11 witness: a page was added while another page was open, and the
\* gallery holds no toggle for the new page.
C11_Witness ==
    /\ last.op = "add_set" /\ last.name \notin last.had
    /\ last.open # {} /\ OpenNames(buttons) = last.open
    /\ Has(image_sets, last.name) /\ ~Has(buttons, last.name)

\* C12: after every operation and event, a page is open if and only if its
\* region holds the HTML the PageSet currently maps its name to, and the
\* region of every closed page is empty.
C12_OpenMeansRendered ==
    \A n \in NameSet(buttons) :
        /\ Get(buttons, n).value
             <=> (/\ Has(image_sets, n)
                  /\ Get(outputs, n).content = <<Rendered(Get(image_sets, n).html)>>)
        /\ ~Get(buttons, n).value => Get(outputs, n).content = <<>>

\* C13: after replace_set(name, html), a second replace_set(name, html)
\* yields a PageSet identical in contents and order; the same for add_set.
C13_OverwriteIdempotent ==
    /\ last.op = "replace_set"
         => replace_set_dict(image_sets, last.name, last.arg) = image_sets
    /\ last.op = "add_set"
         => add_set_dict(image_sets, last.name, last.arg) = image_sets

\* C13 witness: replace_set overwrote the content of an existing page.
C13_Witness ==
    /\ last.op = "replace_set" /\ last.name \in last.had
    /\ ~fresh /\ NameSet(image_sets) = last.had
    /\ Get(image_sets, last.name).html = last.arg

\* C15: in a gallery built by the constructor or refresh() whose PageSet has
\* not changed since, after every toggle or close-all event each toggle is
\* labelled "Hide <name>" if it is open and "Show <name>" if it is closed.
C15_LabelTracksState ==
    (fresh /\ IsEvent)
        => \A n \in NameSet(buttons) :
              Get(buttons, n).description
                  = IF Get(buttons, n).value THEN HideLabel(n) ELSE ShowLabel(n)

\* C15 witness: opening a page forced another one closed; the forced-closed
\* page reads "Show", the opened one "Hide".
C15_Witness ==
    /\ fresh
    /\ last.op = "toggle" /\ last.arg = 1 /\ last.name \notin last.open
    /\ \E q \in last.open :
          ~Get(buttons, q).value /\ Get(buttons, q).description = ShowLabel(q)
    /\ Get(buttons, last.name).description = HideLabel(last.name)

\* C17: _buttons and _outputs always hold the same page names; right after
\* the constructor or refresh() these are the PageSet's names in PageSet
\* order; no other operation or event changes them.
C17_ParallelMaps ==
    /\ [](/\ Keys(buttons) = Keys(outputs)
          /\ last.op \in {"init", "refresh"} => Keys(buttons) = Keys(image_sets))
    /\ [][last'.op # "refresh"
            => Keys(buttons') = Keys(buttons) /\ Keys(outputs') = Keys(outputs)]_vars

\* C17 witness: after a rename the two maps agree with each other and differ
\* from the PageSet.
C17_Witness ==
    /\ last.op = "rename_set"
    /\ Len(buttons) >= 2
    /\ Keys(buttons) = Keys(outputs)
    /\ NameSet(buttons) # NameSet(image_sets)

\* C18: rename_set(old, new) with old present and new absent, or new = old,
\* keeps the size of the PageSet, maps new to old's former HTML, keeps the
\* HTML and the relative order of every other page, and puts the renamed
\* page last.
C18_RenameGoesLast ==
    [][(/\ last'.op = "rename_set"
        /\ last'.name \in NameSet(image_sets)
        /\ (last'.arg \notin NameSet(image_sets) \/ last'.arg = last'.name))
        => /\ Len(image_sets') = Len(image_sets)
           /\ image_sets'[Len(image_sets')]
                = [name |-> last'.arg, html |-> Get(image_sets, last'.name).html]
           /\ SubSeq(image_sets', 1, Len(image_sets') - 1)
                = DictPop(image_sets, last'.name)]_vars

\* C18 witness: a page that was not last was renamed to a new name and now
\* stands last, behind a page that kept its place.
C18_Witness ==
    /\ last.op = "rename_set"
    /\ last.name \in last.had /\ last.arg \notin last.had
    /\ Len(image_sets) >= 2
    /\ image_sets[Len(image_sets)].name = last.arg
    /\ Keys(buttons)[Len(buttons)] # last.name
    /\ Has(buttons, last.name)

Entries(kind) == {i \in 1..Len(trace) : trace[i][1] = kind}

Clears(n) == Cardinality({i \in Entries("clear") : trace[i][2] = n})

OpenedClosedPage == last.op = "toggle" /\ last.arg = 1

FullClears(n) == IF n \in last.open THEN 2 ELSE 1

\* C14 (as claimed): when a closed page P is toggled open, P's region is
\* cleared once, the region of every other page that was open is cleared
\* exactly once and the region of a page that was closed is not cleared.
C14_NoReclearing ==
    OpenedClosedPage
        => /\ Clears(last.name) = 1
           /\ \A n \in NameSet(outputs) \ {last.name} :
                 Clears(n) = IF n \in last.open THEN 1 ELSE 0

\* C14 (amended): when a closed page P is toggled open, P's region is
\* cleared once; the region of every other page named in the PageSet is
\* cleared whether that page was open or closed, once if it was closed and
\* twice if it was open (by the loop and by its nested close handler), unless
\* the handler raised before the loop reached it; the region of a page not
\* named in the PageSet is not cleared.
C14_ClearsEveryOther ==
    OpenedClosedPage
        => /\ Clears(last.name) = 1
           /\ \A n \in NameSet(outputs) \ {last.name} :
                 IF Has(image_sets, n)
                 THEN \/ Clears(n) = FullClears(n)
                      \/ err # "none" /\ Clears(n) = 0
                 ELSE Clears(n) = 0
           /\ err = "none"
                => \A n \in NameSet(image_sets) \ {last.name} : Clears(n) = FullClears(n)

\* C14 witness: P was opened in a fresh gallery holding an open page and a
\* closed page besides P: the first was cleared twice, the second once.
C14_Witness ==
    /\ fresh /\ OpenedClosedPage /\ err = "none"
    /\ \E q \in last.open \ {last.name} : Clears(q) = 2
    /\ \E c \in NameSet(outputs) \ (last.open \cup {last.name}) : Clears(c) = 1

\* C16: within one toggle or close-all event, every programmatic value
\* change sets a toggle to closed, is made by the outermost handler and is
\* followed at once by exactly one run of that page's change handler, one
\* level deeper; a nested handler changes no value; handlers nest at most two
\* deep and run at most once per page besides the outermost one.
C16_CascadeBounded ==
    /\ \A i \in 1..Len(trace) : trace[i][3] <= 2
    /\ \A i \in Entries("set") :
          /\ trace[i][3] >= 1 => trace[i][3] = 1 /\ trace[i][4] = 0
          /\ i < Len(trace)
          /\ trace[i + 1] = <<"call", trace[i][2], trace[i][3] + 1, trace[i][4]>>
    /\ Cardinality(Entries("call")) = Cardinality(Entries("set")) + Bit(last.op = "close_all")
    /\ \A i, j \in Entries("call") :
          (trace[i][3] = 2 /\ trace[j][3] = 2 /\ trace[i][2] = trace[j][2]) => i = j
    /\ Cardinality(Entries("call")) <= 1 + Len(buttons)
    /\ ~IsEvent => trace = <<>>

\* C16 witness: opening a page forced another page closed, whose handler ran
\* nested inside the event.
C16_Witness ==
    /\ OpenedClosedPage
    /\ \E i \in Entries("call") : trace[i][3] = 2 /\ trace[i][2] \in last.open
    /\ \E i \in Entries("set") : trace[i][3] = 1 /\ trace[i][4] = 0

====
